---- MODULE Spec2Model ----
(***************************************************************************)
(* Model of the numeric core of ess.nmx:                                   *)
(*   - scaling.py        get_reference_bin (reference wavelength bin and   *)
(*                       per-group scale factors),                         *)
(*   - mcstas_loader.py  bank_names_to_detector_names, event_data_bank_name*)
(*                       raw_event_data, event_weights_from_probability.   *)
(* Python indices are kept 0-based: a one-dimensional array of length n is *)
(* a function on 0..n-1.  Floating point numbers are modelled as exact     *)
(* rationals <<numerator, denominator>>.                                   *)
(***************************************************************************)
EXTENDS Integers, Sequences, FiniteSets, TLC

VARIABLES
    \* ---- scaling.get_reference_bin ----
    binned,       \* the wavelength-binned input: [0..n-1 -> Seq(reflection)]
    offset,       \* local variable offset of the search loop
    ref_pc,       \* position in get_reference_bin
    grouped,      \* the returned ReferenceWavelengthBin (a sequence of groups)
    \* ---- mcstas_loader: bank names ----
    description,  \* entry1/instrument/description, as a sequence of text lines
    det_query,    \* the detector_name argument of event_data_bank_name
    bank_map,     \* the dict read_bank_names_to_detector_names returned
    bank_item,    \* index of the dict item the for loop is at
    bank_pc,      \* position in event_data_bank_name
    bank_result,  \* what event_data_bank_name returned
    \* ---- mcstas_loader: events ----
    root,         \* root.keys(): the names of the datasets of entry1/data
    events,       \* root[bank_name]["events"][()]: the rows read from the file
    bank_prefix,  \* the bank_prefix argument of raw_event_data
    id_start,     \* first pixel id of the detector (instrument.to_coords)
    ev_pc,        \* position in the loader pipeline
    raw_da,       \* RawEventData: the array returned by raw_event_data
    max_prob,     \* the max_probability argument
    weights       \* EventData: the array returned by event_weights_from_probability

vars == <<binned, offset, ref_pc, grouped,
          description, det_query, bank_map, bank_item, bank_pc, bank_result,
          root, events, bank_prefix, id_start, ev_pc, raw_da, max_prob, weights>>

scaling_vars == <<binned, offset, ref_pc, grouped>>
bank_vars == <<description, det_query, bank_map, bank_item, bank_pc, bank_result>>
event_vars == <<root, events, bank_prefix, id_start, ev_pc, raw_da, max_prob, weights>>

\* Python's None
None == "None"

(***************************************************************************)
(* Generic helpers                                                         *)
(***************************************************************************)
\* All sequences over S of length 0..n
SeqsUpTo(S, n) == UNION {[1..k -> S] : k \in 0..n}

RECURSIVE SumSeq(_)
SumSeq(s) == IF s = <<>> THEN 0 ELSE Head(s) + SumSeq(Tail(s))

RECURSIVE ProdSeq(_)
ProdSeq(s) == IF s = <<>> THEN 1 ELSE Head(s) * ProdSeq(Tail(s))

\* The elements of a finite set of integers in ascending order
RECURSIVE SortedSeq(_)
SortedSeq(S) ==
    IF S = {} THEN <<>>
    ELSE LET m == CHOOSE x \in S : \A y \in S : x <= y
         IN <<m>> \o SortedSeq(S \ {m})

Range(s) == {s[i] : i \in DOMAIN s}

Abs(x) == IF x < 0 THEN -x ELSE x

(***************************************************************************)
(* scaling.py                                                              *)
(***************************************************************************)
MaxBins == 5     \* largest number of wavelength bins explored
MaxRefl == 2     \* largest number of reflections in the whole input

\* Values of the hkl_eq coordinate (vectors), and of the I and SIGI columns
HklValues == {<<1, 0, 0>>, <<0, 1, 0>>}
IntensityValues == {1, 2}
\* Values hash() may return; Python salts str hashes per process, so the
\* hash function is an arbitrary map from strings to these values.
HashValues == {0, 1}

\* One reflection (a row of the mtz table); lambda_bin is the wavelength
\* bin the row falls in.
Reflections(n) ==
    [hkl_eq : HklValues, I : IntensityValues, SIGI : IntensityValues,
     lambda_bin : 0..(n - 1)]

\* A wavelength-binned array (WavelengthBinned) with n bins: each row of
\* table lies in the bin its lambda_bin names.  get_reference_bin takes any
\* such array, also one binned by edges that leave outer bins empty.
BinTable(table, n) ==
    [b \in 0..(n - 1) |->
        LET InBin(r) == r.lambda_bin = b IN SelectSeq(table, InBin)]

\* len(binned)
Len0(arr) == Cardinality(DOMAIN arr)

\* _is_bin_empty(binned, idx) for an index in range: binned[idx].values.size == 0
_is_bin_empty(arr, idx) == Len(arr[idx]) = 0

\* binned[idx] raises IndexError for idx outside 0..len-1 (the loop never
\* produces a negative index)
InRange(arr, idx) == idx \in DOMAIN arr

middle_number == Len0(binned) \div 2
cur_idx == middle_number + offset

\* str(val) of a vector value: "[h k l]"
StrOf(v) == <<"[">> \o v \o <<"]">>
HklStrings == {StrOf(v) : v \in HklValues}
HashFunctions == [HklStrings -> HashValues]

\* hash_variable with the process's hash function h: hash(str(val)) elementwise
hash_variable(h, coord) == [i \in DOMAIN coord |-> h[StrOf(coord[i])]]

\* Exact rationals
FracAdd(a, b) == <<a[1] * b[2] + b[1] * a[2], a[2] * b[2]>>
RECURSIVE FracSum(_)
FracSum(s) == IF s = <<>> THEN <<0, 1>> ELSE FracAdd(Head(s), FracSum(Tail(s)))
\* Mutant of MeanInverse: the sum of the inverses instead of their mean
MeanInverse_Sum(column) ==
    FracSum([i \in DOMAIN column |-> <<1, column[i]>>])
\* sc.mean(1 / column)
MeanInverse(column) ==
    LET inv == [i \in DOMAIN column |-> <<1, column[i]>>]
        s == FracSum(inv)
    IN <<s[1], s[2] * Len(column)>>

Column(rows, name) == [i \in DOMAIN rows |-> rows[i][name]]

\* ref.group("hkl_eq_hash"): one group per distinct hash value, ascending,
\* each holding its rows in their order; then the two scale-factor coords.
GroupReference(ref, h) ==
    LET hashes == hash_variable(h, Column(ref, "hkl_eq"))
        keys == SortedSeq(Range(hashes))
        Rows(k) == LET idx == SortedSeq({i \in DOMAIN ref : hashes[i] = k})
                   IN [j \in DOMAIN idx |-> ref[idx[j]]]
    IN [g \in DOMAIN keys |->
          [hkl_eq_hash |-> keys[g],
           values |-> Rows(keys[g]),
           scale_factor_I |-> MeanInverse(Column(Rows(keys[g]), "I")),
           scale_factor_SIGI |-> MeanInverse(Column(Rows(keys[g]), "SIGI"))]]

\* The while condition of get_reference_bin
SearchContinues ==
    /\ 0 < cur_idx
    /\ cur_idx < Len0(binned)
    /\ _is_bin_empty(binned, cur_idx)

\* offset = -offset + 1 if offset <= 0 else -offset
NextOffset(o) == IF o <= 0 THEN -o + 1 ELSE -o

\* One iteration of the while loop
SearchStep ==
    /\ ref_pc = "search"
    /\ SearchContinues
    /\ offset' = NextOffset(offset)
    /\ UNCHANGED <<binned, ref_pc, grouped>>
    /\ UNCHANGED <<bank_vars, event_vars>>

\* The loop condition is false: go on to the emptiness test after the loop
SearchExit ==
    /\ ref_pc = "search"
    /\ ~SearchContinues
    /\ ref_pc' = "check"
    /\ UNCHANGED <<binned, offset, grouped>>
    /\ UNCHANGED <<bank_vars, event_vars>>

\* _is_bin_empty(binned, cur_idx) after the loop indexes out of range
RaiseIndexError ==
    /\ ref_pc = "check"
    /\ ~InRange(binned, cur_idx)
    /\ ref_pc' = "IndexError"
    /\ UNCHANGED <<binned, offset, grouped>>
    /\ UNCHANGED <<bank_vars, event_vars>>

\* raise ValueError("No reference group found.")
RaiseValueError ==
    /\ ref_pc = "check"
    /\ InRange(binned, cur_idx)
    /\ _is_bin_empty(binned, cur_idx)
    /\ ref_pc' = "ValueError"
    /\ UNCHANGED <<binned, offset, grouped>>
    /\ UNCHANGED <<bank_vars, event_vars>>

\* Build and return the grouped reference bin
BuildReference ==
    /\ ref_pc = "check"
    /\ InRange(binned, cur_idx)
    /\ ~_is_bin_empty(binned, cur_idx)
    /\ \E h \in HashFunctions : grouped' = GroupReference(binned[cur_idx], h)
    /\ ref_pc' = "done"
    /\ UNCHANGED <<binned, offset>>
    /\ UNCHANGED <<bank_vars, event_vars>>

(***************************************************************************)
(* mcstas_loader.py: bank names                                            *)
(***************************************************************************)
MaxLines == 4    \* largest number of lines of the description explored

\* Strings are sequences of characters or character runs; "." is the dot.
DetectorNames == {<<"d">>, <<"e", ".", "x">>}
BankNames == {<<>>, <<"b", ".", "x", ".", "y">>, <<"d">>}
\* A detector name no description defines
UnlistedDetector == <<"u">>

\* The description is a sequence of lines, each ending in a newline:
\*   monitor    COMPONENT <name> = Monitor_nD(
\*   component  a line holding the text COMPONENT that defines no Monitor_nD
\*              at its start (COMPONENT arm = Arm(), an indented COMPONENT)
\*   filename   a line holding   filename = "<value>"
\*   word       a line holding the text filename without  = "<value>"
\*              after it (a comment, filename="x" without blanks)
\*   other      a line holding neither COMPONENT nor filename
DescriptionLines ==
    [kind : {"monitor"}, name : DetectorNames]
        \cup [kind : {"filename"}, value : BankNames]
        \cup [kind : {"component", "word", "other"}]

\* (?:(?!COMPONENT)(?!filename)(?:.|\s))* from line pos on: the index of the
\* first line holding COMPONENT or filename, Len + 1 when there is none
RECURSIVE SkipUninteresting(_, _)
SkipUninteresting(desc, pos) ==
    IF pos > Len(desc) \/ desc[pos].kind # "other" THEN pos
    ELSE SkipUninteresting(desc, pos + 1)

\* re.finditer(detector_component_regex, description, re.MULTILINE) from line
\* pos on: the successive non-overlapping matches with their two groups
RECURSIVE finditer(_, _)
finditer(desc, pos) ==
    IF pos > Len(desc) THEN <<>>
    ELSE IF desc[pos].kind # "monitor" THEN finditer(desc, pos + 1)
    ELSE LET stop == SkipUninteresting(desc, pos + 1)
             has_filename == stop <= Len(desc) /\ desc[stop].kind = "filename"
         IN <<[detector_name |-> desc[pos].name,
               bank_name |-> IF has_filename THEN desc[stop].value ELSE None]>>
            \o finditer(desc, IF has_filename THEN stop + 1 ELSE stop)

\* m.group('bank_name') or m.group('detector_name')
KeyOf(m) ==
    IF m.bank_name = None \/ m.bank_name = <<>> THEN m.detector_name
    ELSE m.bank_name

DictKeys(d) == {d[i].key : i \in DOMAIN d}

\* d.setdefault(key, []).append(value) on an insertion-ordered dict
SetDefaultAppend(d, key, value) ==
    IF key \in DictKeys(d)
    THEN [i \in DOMAIN d |->
            IF d[i].key = key
            THEN [key |-> key, value |-> Append(d[i].value, value)]
            ELSE d[i]]
    ELSE Append(d, [key |-> key, value |-> <<value>>])

RECURSIVE CollectMatches(_, _)
CollectMatches(d, matches) ==
    IF matches = <<>> THEN d
    ELSE CollectMatches(
            SetDefaultAppend(d, KeyOf(Head(matches)), Head(matches).detector_name),
            Tail(matches))

bank_names_to_detector_names(desc) == CollectMatches(<<>>, finditer(desc, 1))

\* Mutant of partition_first: cut at the last '.' (rsplit('.', 1)[0])
RECURSIVE partition_last(_)
partition_last(str) ==
    IF str = <<>> THEN <<>>
    ELSE IF "." \notin Range(Tail(str)) /\ Head(str) = "." THEN <<>>
    ELSE IF "." \notin Range(str) THEN str
    ELSE <<Head(str)>> \o partition_last(Tail(str))

\* bank_name.partition('.')[0]
RECURSIVE partition_first(_)
partition_first(str) ==
    IF str = <<>> \/ Head(str) = "." THEN <<>>
    ELSE <<Head(str)>> \o partition_first(Tail(str))

\* read_bank_names_to_detector_names(file_path), then the for loop starts
ReadBankNames ==
    /\ bank_pc = "start"
    /\ bank_map' = bank_names_to_detector_names(description)
    /\ bank_item' = 1
    /\ bank_pc' = "loop"
    /\ UNCHANGED <<description, det_query, bank_result>>
    /\ UNCHANGED <<scaling_vars, event_vars>>

\* The current item does not list the detector: next item
BankLoopNext ==
    /\ bank_pc = "loop"
    /\ bank_item <= Len(bank_map)
    /\ det_query \notin Range(bank_map[bank_item].value)
    /\ bank_item' = bank_item + 1
    /\ UNCHANGED <<description, det_query, bank_map, bank_pc, bank_result>>
    /\ UNCHANGED <<scaling_vars, event_vars>>

\* The current item lists the detector: return bank_name.partition('.')[0]
BankLoopReturn ==
    /\ bank_pc = "loop"
    /\ bank_item <= Len(bank_map)
    /\ det_query \in Range(bank_map[bank_item].value)
    /\ bank_result' = partition_first(bank_map[bank_item].key)
    /\ bank_pc' = "done"
    /\ UNCHANGED <<description, det_query, bank_map, bank_item>>
    /\ UNCHANGED <<scaling_vars, event_vars>>

\* The loop ends without a return: the function returns None
BankLoopExhausted ==
    /\ bank_pc = "loop"
    /\ bank_item > Len(bank_map)
    /\ bank_result' = None
    /\ bank_pc' = "done"
    /\ UNCHANGED <<description, det_query, bank_map, bank_item>>
    /\ UNCHANGED <<scaling_vars, event_vars>>

(***************************************************************************)
(* mcstas_loader.py: events                                                *)
(***************************************************************************)
MaxEvents == 2   \* largest number of rows of the event list explored
MaxProb == 2     \* largest max_probability explored

\* const.DETECTOR_SHAPE, scaled down from the instrument's panel
DETECTOR_SHAPE == <<1, 2>>

\* The pixel_id coordinate instrument.to_coords(detector_name) returns: one
\* id per pixel of the panel, consecutive from the detector's first id
PixelIds(first) == first..(first + DETECTOR_SHAPE[1] * DETECTOR_SHAPE[2] - 1)
FirstPixelIds == {0, 1}

\* Names of the datasets of entry1/data, and bank prefixes
DatasetNames ==
    {<<"bank01", "_events", "_dat_list_p_x_y_n_id_t">>,
     <<"bank02", "_events", "_dat_list_p_x_y_n_id_t">>}
BankPrefixes == {<<"bank01", "_events">>, <<"_events">>, <<"bank03", "_events">>}

\* A row of the event list: columns p, x, y, n, id, t (dim_1 = 0..5).  The
\* file stores floats; the id column is given in halves (3 stands for 1.5),
\* the other columns in units.
ProbabilityValues == {0, 1, 2}
RawIdValues == {1, 2, 3, 4}
TofValues == {0, 1}
EventRows ==
    {<<p, 0, 0, 1, id, t>> :
        p \in ProbabilityValues, id \in RawIdValues, t \in TofValues}

\* sc.array(..., dtype='int64') of a float given in halves: truncation
Int64(halves) == halves \div 2

\* a in b for strings
IsSubstring(a, b) ==
    \E i \in 1..(Len(b) - Len(a) + 1) : SubSeq(b, i, i + Len(a) - 1) = a

\* f'{bank_prefix}_dat_list_p_x_y_n_id_t'
BankDatasetName(prefix) == prefix \o <<"_dat_list_p_x_y_n_id_t">>

\* (name for name in root.keys() if bank_name in name)
MatchingDatasets(keys, prefix) ==
    {i \in DOMAIN keys : IsSubstring(BankDatasetName(prefix), keys[i])}

\* Mutant of EventArray: the id and t columns exchanged
EventArray_ColumnsSwapped(data) ==
    [i \in DOMAIN data |->
        [id |-> Int64(data[i][6]), t |-> data[i][5], data |-> data[i][1],
         event |-> i]]

\* The DataArray over dim 'event' built from the rows: coord id from column
\* 4 as int64, coord t from column 5, data from column 0.  The field event
\* is the position along dim 'event'.
EventArray(data) ==
    [i \in DOMAIN data |->
        [id |-> Int64(data[i][5]), t |-> data[i][6], data |-> data[i][1],
         event |-> i]]

\* da.group(pixel_id): one bin per value of pixel_id, holding the events
\* whose id coord equals it, in their order
GroupByPixel(da, pixel_id) ==
    [q \in pixel_id |-> LET InPixel(e) == e.id = q IN SelectSeq(da, InPixel)]

\* All events of a binned array
AllEvents(da) == UNION {Range(da[q]) : q \in DOMAIN da}

\* Mutant of DaMax: the smallest value instead of the largest
DaMax_Min(da) ==
    LET values == {e.data : e \in AllEvents(da)}
    IN IF values = {} THEN 0
       ELSE CHOOSE m \in values : \A v \in values : v >= m

\* da.max(): the largest data value of the events (not used when there is
\* no event to scale)
DaMax(da) ==
    LET values == {e.data : e \in AllEvents(da)}
    IN IF values = {} THEN 0
       ELSE CHOOSE m \in values : \A v \in values : v <= m

\* sc.scalar(max_probability, unit='counts') * da / da.max()
ScaleByMax(da, max_probability) ==
    [q \in DOMAIN da |->
        [k \in DOMAIN da[q] |->
            [da[q][k] EXCEPT !.data = <<max_probability * @, DaMax(da)>>]]]

\* raw_event_data: exactly one dataset name holds the bank name
RawEventData ==
    /\ ev_pc = "start"
    /\ Cardinality(MatchingDatasets(root, bank_prefix)) = 1
    /\ \E data \in SeqsUpTo(EventRows, MaxEvents), first \in FirstPixelIds :
          /\ events' = data
          /\ id_start' = first
          /\ raw_da' = GroupByPixel(EventArray(data), PixelIds(first))
    /\ ev_pc' = "raw"
    /\ UNCHANGED <<root, bank_prefix, max_prob, weights>>
    /\ UNCHANGED <<scaling_vars, bank_vars>>

\* raw_event_data: (bank_name,) = (...) with no or several matching names
RawEventDataUnpackError ==
    /\ ev_pc = "start"
    /\ Cardinality(MatchingDatasets(root, bank_prefix)) # 1
    /\ ev_pc' = "ValueError"
    /\ UNCHANGED <<root, events, bank_prefix, id_start, raw_da, max_prob, weights>>
    /\ UNCHANGED <<scaling_vars, bank_vars>>

\* event_weights_from_probability(da, max_probability)
EventWeightsFromProbability ==
    /\ ev_pc = "raw"
    /\ \E mp \in 0..MaxProb :
          /\ max_prob' = mp
          /\ weights' = ScaleByMax(raw_da, mp)
    /\ ev_pc' = "weighted"
    /\ UNCHANGED <<root, events, bank_prefix, id_start, raw_da>>
    /\ UNCHANGED <<scaling_vars, bank_vars>>

IdleBank ==
    /\ description = <<>> /\ det_query = None /\ bank_pc = "idle"
    /\ bank_map = <<>> /\ bank_item = 0 /\ bank_result = None
IdleEvents ==
    /\ root = <<>> /\ events = <<>> /\ bank_prefix = <<>> /\ id_start = 0
    /\ ev_pc = "idle"
    /\ raw_da = <<>> /\ max_prob = 0 /\ weights = <<>>
IdleScaling ==
    /\ binned = <<>> /\ offset = 0 /\ ref_pc = "idle" /\ grouped = <<>>

InitScaling ==
    /\ \E n \in 1..MaxBins :
         \E table \in SeqsUpTo(Reflections(n), MaxRefl) :
            binned = BinTable(table, n)
    /\ offset = 0
    /\ ref_pc = "search"
    /\ grouped = <<>>
    /\ IdleBank
    /\ IdleEvents

NextScaling ==
    \/ SearchStep
    \/ SearchExit
    \/ RaiseIndexError
    \/ RaiseValueError
    \/ BuildReference

SpecScaling == InitScaling /\ [][NextScaling]_vars

InitBanks ==
    /\ description \in SeqsUpTo(DescriptionLines, MaxLines)
    /\ det_query \in DetectorNames \cup {UnlistedDetector}
    /\ bank_map = <<>>
    /\ bank_item = 0
    /\ bank_pc = "start"
    /\ bank_result = None
    /\ IdleScaling
    /\ IdleEvents

NextBanks ==
    \/ ReadBankNames
    \/ BankLoopNext
    \/ BankLoopReturn
    \/ BankLoopExhausted

SpecBanks == InitBanks /\ [][NextBanks]_vars

InitEvents ==
    /\ root \in SeqsUpTo(DatasetNames, Cardinality(DatasetNames))
    /\ bank_prefix \in BankPrefixes
    /\ events = <<>>
    /\ id_start = 0
    /\ ev_pc = "start"
    /\ raw_da = <<>>
    /\ max_prob = 0
    /\ weights = <<>>
    /\ IdleScaling
    /\ IdleBank

NextEvents ==
    \/ RawEventData
    \/ RawEventDataUnpackError
    \/ EventWeightsFromProbability

SpecEvents == InitEvents /\ [][NextEvents]_vars

(***************************************************************************)
(* Properties of get_reference_bin                                         *)
(***************************************************************************)
RefTerminated == ref_pc \in {"done", "ValueError", "IndexError"}
AllBinsEmpty == \A i \in DOMAIN binned : _is_bin_empty(binned, i)
NonEmptyBins == {i \in DOMAIN binned : ~_is_bin_empty(binned, i)}
middle_distance(i) == Abs(i - (Len0(binned) \div 2))

\* C1: whenever every bin of the input is empty, get_reference_bin ends by
\* raising ValueError("No reference group found."), for every number of
\* bins n >= 1, odd or even.
C1_AllEmptyRaisesValueError ==
    (RefTerminated /\ AllBinsEmpty) => ref_pc = "ValueError"

\* C2: whenever the input has a non-empty bin, get_reference_bin returns a
\* reference built from a non-empty bin whose index minimises the distance
\* to the middle index len(binned) // 2 over all non-empty bins.
C2_NearestNonEmptyBinSelected ==
    (RefTerminated /\ NonEmptyBins # {}) =>
        /\ ref_pc = "done"
        /\ cur_idx \in NonEmptyBins
        /\ \A j \in NonEmptyBins : middle_distance(cur_idx) <= middle_distance(j)
        /\ SumSeq([g \in DOMAIN grouped |-> Len(grouped[g].values)])
             = Len(binned[cur_idx])

\* Number of occurrences of row r in the sequence rows
Occurrences(rows, r) == Cardinality({i \in DOMAIN rows : rows[i] = r})

\* value = mean of 1/x over the column, stated over the common denominator
\* P = product of the column: value * P * count = sum of P / x
IsMeanOfInverses(value, column) ==
    LET P == ProdSeq(column)
        S == SumSeq([i \in DOMAIN column |-> P \div column[i]])
    IN value[1] * P * Len(column) = value[2] * S

\* C6: the returned groups partition the reflections of the selected bin by
\* hkl_eq: every reflection is in exactly one group, reflections with equal
\* hkl_eq share a group, and each group's scale_factor_I (scale_factor_SIGI)
\* is the mean of 1/I (1/SIGI) over the group's reflections.
C6_GroupsPartitionWithMeanScaleFactors ==
    ref_pc = "done" =>
        LET ref == binned[cur_idx] IN
        /\ \A r \in Range(ref) :
              SumSeq([g \in DOMAIN grouped |-> Occurrences(grouped[g].values, r)])
                = Occurrences(ref, r)
        /\ \A g \in DOMAIN grouped :
              /\ grouped[g].values # <<>>
              /\ Range(grouped[g].values) \subseteq Range(ref)
        /\ \A g1, g2 \in DOMAIN grouped :
              \A r1 \in Range(grouped[g1].values), r2 \in Range(grouped[g2].values) :
                 r1.hkl_eq = r2.hkl_eq => g1 = g2
        /\ \A g \in DOMAIN grouped :
              /\ grouped[g].scale_factor_I[2] # 0
              /\ grouped[g].scale_factor_SIGI[2] # 0
              /\ IsMeanOfInverses(grouped[g].scale_factor_I,
                                  Column(grouped[g].values, "I"))
              /\ IsMeanOfInverses(grouped[g].scale_factor_SIGI,
                                  Column(grouped[g].values, "SIGI"))

\* A returned reference with a group of two reflections of different hkl_eq
\* (a hash collision) whose I values differ and whose SIGI values differ
\* from their I values
C6_Witness ==
    /\ ref_pc = "done"
    /\ cur_idx # middle_number
    /\ \E g \in DOMAIN grouped :
          /\ Len(grouped[g].values) = 2
          /\ grouped[g].values[1].I # grouped[g].values[2].I
          /\ grouped[g].values[1].SIGI # grouped[g].values[1].I
          /\ grouped[g].values[1].hkl_eq # grouped[g].values[2].hkl_eq

(***************************************************************************)
(* Properties of the bank-name functions                                   *)
(***************************************************************************)
MonitorLines == {i \in DOMAIN description : description[i].kind = "monitor"}

\* The line of the next COMPONENT after line i, Len + 1 when there is none
NextComponentLine(i) ==
    LET later == {j \in DOMAIN description :
                    j > i /\ description[j].kind \in {"monitor", "component"}}
    IN IF later = {} THEN Len(description) + 1
       ELSE CHOOSE j \in later : \A k \in later : j <= k

\* The filename = "..." lines of the component defined at line i
FilenameLines(i) ==
    {j \in (i + 1)..(NextComponentLine(i) - 1) : description[j].kind = "filename"}

\* The key the claim gives the component defined at line i
ClaimedKey(i) ==
    LET first == CHOOSE j \in FilenameLines(i) : \A k \in FilenameLines(i) : j <= k
    IN IF FilenameLines(i) = {} \/ description[first].value = <<>>
       THEN description[i].name
       ELSE description[first].value

\* The detector names the claim lists under key k, in order of appearance
ClaimedDetectors(k) ==
    LET lines == SortedSeq({i \in MonitorLines : ClaimedKey(i) = k})
    IN [n \in DOMAIN lines |-> description[lines[n]].name]

\* C3: bank_names_to_detector_names lists every Monitor_nD definition exactly
\* once, under the value of its filename = "..." line when one occurs
\* before the next COMPONENT and is not empty, under its own name otherwise;
\* detectors with the same key are listed in their order of appearance.
C3_EveryMonitorUnderItsFilename ==
    bank_pc \in {"loop", "done"} =>
        /\ \A i, j \in DOMAIN bank_map : bank_map[i].key = bank_map[j].key => i = j
        /\ DictKeys(bank_map) = {ClaimedKey(i) : i \in MonitorLines}
        /\ \A i \in DOMAIN bank_map :
              bank_map[i].value = ClaimedDetectors(bank_map[i].key)

\* result is str cut at its first '.': a prefix of str without '.', which
\* is all of str or is followed by a '.'
IsCutAtFirstDot(result, str) ==
    /\ Len(result) <= Len(str)
    /\ \A i \in DOMAIN result : result[i] = str[i] /\ result[i] # "."
    /\ Len(result) < Len(str) => str[Len(result) + 1] = "."

\* The items of the returned dict that list the queried detector
ListingItems == {i \in DOMAIN bank_map : det_query \in Range(bank_map[i].value)}

\* C7: event_data_bank_name returns, for a detector listed under some bank
\* of the description, the name of the first such bank (in the order of the
\* dict, which is the order the banks first appear in the description) cut
\* at its first '.', and None when no bank lists the detector.
C7_BankNameCutAtFirstDot ==
    bank_pc = "done" =>
        IF ListingItems = {}
        THEN bank_result = None
        ELSE LET first == CHOOSE i \in ListingItems : \A j \in ListingItems : i <= j
             IN /\ bank_result # None
                /\ IsCutAtFirstDot(bank_result, bank_map[first].key)

\* event_data_bank_name returned the prefix of a bank name with two dots,
\* found at the second of two banks that list the detector
C7_Witness ==
    /\ bank_pc = "done"
    /\ Cardinality(ListingItems) = 2
    /\ bank_item = 2
    /\ bank_map[2].key = <<"b", ".", "x", ".", "y">>
    /\ bank_result = <<"b">>

(***************************************************************************)
(* Properties of raw_event_data and event_weights_from_probability         *)
(***************************************************************************)
\* The rows whose id column is one of the detector's pixel ids
DetectorRows ==
    {i \in DOMAIN events :
        events[i][5] % 2 = 0 /\ (events[i][5] \div 2) \in PixelIds(id_start)}

\* The places <<pixel, position>> of the result that hold row i
PlacesOf(i) ==
    {pl \in UNION {{<<q, k>> : k \in DOMAIN raw_da[q]} : q \in DOMAIN raw_da} :
        raw_da[pl[1]][pl[2]].event = i}

\* C4: raw_event_data returns one bin per pixel id of the detector
\* (DETECTOR_SHAPE[0] * DETECTOR_SHAPE[1] bins, whatever the events), and
\* every event whose id is a pixel id of the detector is in exactly one
\* bin, the bin of that pixel id, with its probability and time of flight.
C4_EventsGroupedByPixel ==
    ev_pc \in {"raw", "weighted"} =>
        /\ DOMAIN raw_da = PixelIds(id_start)
        /\ Cardinality(DOMAIN raw_da) = DETECTOR_SHAPE[1] * DETECTOR_SHAPE[2]
        /\ \A i \in DetectorRows :
              /\ Cardinality(PlacesOf(i)) = 1
              /\ \A pl \in PlacesOf(i) :
                    /\ 2 * pl[1] = events[i][5]
                    /\ raw_da[pl[1]][pl[2]].data = events[i][1]
                    /\ raw_da[pl[1]][pl[2]].t = events[i][6]

\* raw_event_data returned for two events of the detector that differ in
\* pixel id, probability and time of flight
C4_Witness ==
    /\ ev_pc = "raw"
    /\ Cardinality(DetectorRows) = 2
    /\ events[1][5] # events[2][5]
    /\ events[1][1] # events[2][1]
    /\ events[1][6] # events[1][5] \div 2
    /\ events[1][6] # events[2][6]

\* The places of the binned input of event_weights_from_probability
RawPlaces == UNION {{<<q, k>> : k \in DOMAIN raw_da[q]} : q \in DOMAIN raw_da}
Probability(pl) == raw_da[pl[1]][pl[2]].data
Weight(pl) == weights[pl[1]][pl[2]].data
\* pmax is the largest probability of the input
IsMaxProbability(pmax) ==
    /\ \E pl \in RawPlaces : Probability(pl) = pmax
    /\ \A pl \in RawPlaces : Probability(pl) <= pmax

====
